---------------------------- MODULE Spec2Model ----------------------------
(***************************************************************************)
(* A model of ms_migrate_cli/ms_device.py: the `migrate` command, the      *)
(* collaborator wrappers it calls (get_switch_config, get_switch_ports,    *)
(* clone_config, update_switch_ports, update_switch_config) and the port   *)
(* renumbering done inside update_switch_ports.                            *)
(*                                                                         *)
(* Python values are modelled as follows.                                  *)
(*   - An optional value is None (the empty tuple) or Some(v) (a 1-tuple). *)
(*   - A decimal string such as a portId is the sequence of its digits;    *)
(*     str() and int() are the operators PyStr and PyInt below.            *)
(*   - A dataclass instance is a function from its field names to optional *)
(*     values.  SwitchPort instances live in `heap` and lists hold their   *)
(*     addresses, so that in-place assignment through an alias is visible. *)
(*   - A keyword-argument payload is a function whose domain is the set of *)
(*     keywords actually passed.                                           *)
(***************************************************************************)
EXTENDS Integers, Sequences, FiniteSets, TLC

\* ------------------------------------------------------------------ bounds

\* Largest number of ports a switch reports when update_switch_ports is
\* exercised on its own.
MaxPorts == 51

\* Number of uplink (SFP) ports, beyond the base ports, of the switches the
\* collaborator returns during a migrate run.
Uplinks == 2

\* Number of distinct field profiles the collaborator's port records take.
NumProfiles == 2

\* ------------------------------------------------------------ Python values

None == << >>

Some(v) == << v >>

Value(o) == o[1]

\* str(n) for a non-negative integer n: its decimal digits, most significant
\* first.
RECURSIVE PyStr(_)
PyStr(n) == IF n < 10 THEN << n >> ELSE Append(PyStr(n \div 10), n % 10)

\* int(s) for a string s of decimal digits.
RECURSIVE PyInt(_)
PyInt(s) == IF Len(s) = 1 THEN s[1]
            ELSE 10 * PyInt(SubSeq(s, 1, Len(s) - 1)) + s[Len(s)]

\* A slice that stops one element early.
TakeShort(s, k) == SubSeq(s, 1, (IF k < Len(s) THEN k ELSE Len(s)) - 1)

\* s[:k] and s[k:] of a Python list.
Take(s, k) == SubSeq(s, 1, IF k < Len(s) THEN k ELSE Len(s))

Drop(s, k) == SubSeq(s, (IF k < Len(s) THEN k ELSE Len(s)) + 1, Len(s))

\* --------------------------------------------------------------- dataclasses

\* The fields of SwitchDevice.  `notes` stands for the free-form attributes
\* (lat, lng, address, notes, floorPlanId), which the code treats alike.
SwitchDeviceFields == {"name", "model", "mac", "tags", "notes"}

\* The fields of SwitchPort.  `name`, `vlan` and `enabled` stand for the
\* twenty-five optional settings, which the code treats alike.
SwitchPortFields == {"portId", "name", "vlan", "enabled"}

\* SwitchDevice(**{k: v for k, v in response.items() if k in parameters}):
\* recognised keys are kept, the others stay at their default None.
SwitchDevice(response) ==
    [f \in SwitchDeviceFields |->
        IF f \in DOMAIN response THEN Some(response[f]) ELSE None]

SwitchPort(response) ==
    [f \in SwitchPortFields |->
        IF f \in DOMAIN response THEN Some(response[f]) ELSE None]

\* dataclasses.asdict(obj): every field with its value, None included.
AsDict(obj) == obj

\* SwitchPort(**dataclasses.asdict(port)): a new instance with the values of
\* port.
CopyPort(port) == [f \in SwitchPortFields |-> AsDict(port)[f]]

\* The keys the dict_factory of update_switch_config keeps.
DeviceKept(obj) == {f \in DOMAIN obj : obj[f] # None}

\* dataclasses.asdict(source_device, dict_factory=... if v is not None).
DevicePayload(obj) == [f \in DeviceKept(obj) |-> Value(obj[f])]

\* A filter that lets portId through with the other fields that are set.
PortKeptWithPortId(obj) == {f \in DOMAIN obj : obj[f] # None}

\* The keys the dict_factory of update_switch_ports keeps.
PortKept(obj) == {f \in DOMAIN obj : obj[f] # None /\ f # "portId"}

\* dataclasses.asdict(port, dict_factory=... if v is not None and k != 'portId').
PortPayload(obj) == [f \in PortKept(obj) |-> Value(obj[f])]

\* A text such as a device name is the sequence of its pieces, so that an
\* f-string is a concatenation.  f'{source_device.name}-clone': the formatted
\* name followed by the suffix; formatting None gives the text "None".
CloneName(name) ==
    (IF name = None THEN << "None" >> ELSE Value(name)) \o << "-clone" >>

\* x in tags, for a list of tags.
InList(x, list) == \E i \in 1..Len(list) : list[i] = x


\* ------------------------------------------------- the collaborator's answers

SOURCE_SERIAL == "Q2XX-SRC"

TARGET_SERIAL == "Q2XX-TGT"

\* A response mapping built from optional values: the keys with a value, plus
\* `serial`, a key the dataclasses do not know.
Mapping(opt, serial) ==
    [k \in {f \in DOMAIN opt : opt[f] # None} \cup {"serial"} |->
        IF k = "serial" THEN serial ELSE Value(opt[k])]

\* What getDevice may return for the source switch.
SourceDeviceResponses ==
    { Mapping([name |-> n, model |-> m, mac |-> Some(<< "aa:01" >>),
               tags |-> Some(<< "floor1" >>), notes |-> o], SOURCE_SERIAL) :
        n \in {None, Some(<< "sw1" >>)},
        m \in {None, Some(<< "MS225-24" >>)},
        o \in {None, Some(<< "rack 4" >>)} }

\* What getDevice may return for the target switch.
TargetDeviceResponses ==
    { Mapping([name |-> n, model |-> m, mac |-> a, tags |-> t, notes |-> None],
              TARGET_SERIAL) :
        n \in {None, Some(<< "aa:02" >>), Some(<< "sw2" >>)},
        a \in {None, Some(<< "aa:02" >>)},
        t \in {None, Some(<< >>), Some(<< "spare" >>),
               Some(<< "spare", "undeployed" >>)},
        m \in {None, Some(<< "MS225-24" >>)} }

\* The i-th port mapping of a switch, in field profile p: which settings carry
\* a value depends on i and p; portId always does.
PortMapping(i, p) ==
    Mapping([portId  |-> Some(PyStr(i)),
             name    |-> IF (i + p) % 2 = 1 THEN Some(<< "port", i >>) ELSE None,
             vlan    |-> IF (i + 2 * p) % 3 # 0 THEN Some(100 + (i % 4)) ELSE None,
             enabled |-> Some(i % 2 = 0)], "n/a")

\* What getDeviceSwitchPorts returns for a switch of n ports: the ports in
\* physical order, portIds "1".."n".
PortsResponse(n, p) == [i \in 1..n |-> PortMapping(i, p)]

Profiles == 0..(NumProfiles - 1)

\* Port counts of the switches met in a migrate run.
SourcePortCounts == {8, 24 + Uplinks, 48 + Uplinks}

TargetPortCounts == {24, 48 + Uplinks}

\* What the operator may type at the confirmation prompt.
Answers == {"y", "n", ""}

\* ----------------------------------------------------------------- the state

VARIABLES
    entry,                  \* the function being run: "migrate" or "update_switch_ports"
    pc,                     \* the statement about to run
    yes,                    \* --yes
    organization_id,        \* --organization-id, or None
    source_device,          \* migrate's source_device
    target_device,          \* migrate's target_device
    answer,                 \* what click.confirm read, None if it never prompted
    source_response,        \* the port mappings source_ports was built from
    heap,                   \* the SwitchPort instances, by address
    source_ports,           \* source_ports: addresses into heap
    target_port_count,      \* len(target_ports)
    source_rj45_count,      \* update_switch_ports' local, None until computed
    target_rj45_count,      \* update_switch_ports' local, None until computed
    adjusted_source_ports,  \* update_switch_ports' local: addresses into heap
    port_index,             \* position of the loop over adjusted_source_ports
    calls,                  \* the collaborator calls made so far, in order
    error                   \* the error the run ended with, None if none: its
                            \* kind, then the portId its message names, if any

vars == << entry, pc, yes, organization_id, source_device, target_device,
           answer, source_response, heap, source_ports, target_port_count,
           source_rj45_count, target_rj45_count, adjusted_source_ports,
           port_index, calls, error >>

\* A collaborator call: the operation, the serial it addresses, the portId
\* argument (None when it has none), the keyword arguments and whether it
\* returned (TRUE) or raised (FALSE).
Call(op, serial, portId, kwargs, ok) ==
    [op |-> op, serial |-> serial, portId |-> portId, kwargs |-> kwargs, ok |-> ok]

NoKwargs == << >>

\* ------------------------------------------- update_switch_ports: the arithmetic

\* rj45_ports: the possible counts of GbE RJ45 ports, in list order.
rj45_ports == << 8, 24, 48 >>

\* A key that is the plain distance, whichever side x lies on.
Rj45KeyNearest(x, port_count) ==
    IF x - port_count < 0 THEN port_count - x ELSE x - port_count

\* The key of the min() selection: the distance of x to the port count for an
\* x at or below it, x itself for an x above it.
Rj45Key(x, port_count) ==
    IF x <= port_count
    THEN (IF x - port_count < 0 THEN port_count - x ELSE x - port_count)
    ELSE x

\* min(rj45_ports, key=...): the first element of the list whose key is least.
Rj45Count(port_count) ==
    LET i == CHOOSE i \in 1..Len(rj45_ports) :
                 /\ \A j \in 1..Len(rj45_ports) :
                        Rj45Key(rj45_ports[i], port_count)
                            <= Rj45Key(rj45_ports[j], port_count)
                 /\ \A j \in 1..(i - 1) :
                        Rj45Key(rj45_ports[j], port_count)
                            > Rj45Key(rj45_ports[i], port_count)
    IN  rj45_ports[i]

\* A duplication that copies the last RJ45 port instead of the first.
RECURSIVE DuplicateLastPort(_, _, _)
DuplicateLastPort(h, ports, n) ==
    IF n >= 48 THEN [heap |-> h, ports |-> ports]
    ELSE LET h1 == Append(h, CopyPort(h[ports[24]]))
             p1 == Append(ports, Len(h1))
             h2 == [h1 EXCEPT ![p1[n + 1]]["portId"] = Some(PyStr(n + 1))]
         IN  DuplicateLastPort(h2, p1, n + 1)

\* A duplication that appends the first RJ45 port itself, not a new instance
\* with its values.
RECURSIVE DuplicateFirstPortAliased(_, _, _)
DuplicateFirstPortAliased(h, ports, n) ==
    IF n >= 48 THEN [heap |-> h, ports |-> ports]
    ELSE LET p1 == Append(ports, ports[1])
             h2 == [h EXCEPT ![p1[n + 1]]["portId"] = Some(PyStr(n + 1))]
         IN  DuplicateFirstPortAliased(h2, p1, n + 1)

\* for n in range(24, 48), from n on: append a new instance with the values of the first
\* RJ45 port to the list, then set the portId of the list's element n (counted
\* from 0) to str(n + 1).  h is the heap, ports the list of addresses.
RECURSIVE DuplicateFirstPort(_, _, _)
DuplicateFirstPort(h, ports, n) ==
    IF n >= 48 THEN [heap |-> h, ports |-> ports]
    ELSE LET h1 == Append(h, CopyPort(h[ports[1]]))
             p1 == Append(ports, Len(h1))
             h2 == [h1 EXCEPT ![p1[n + 1]]["portId"] = Some(PyStr(n + 1))]
         IN  DuplicateFirstPort(h2, p1, n + 1)

\* A renumbering that leaves every portId as it is.
RenumberNot(h, ports, delta) == h

\* for port in ports: port.portId = str(int(port.portId) + delta), in place.
RECURSIVE Renumber(_, _, _)
Renumber(h, ports, delta) ==
    IF ports = << >> THEN h
    ELSE LET a == Head(ports)
         IN  Renumber([h EXCEPT ![a]["portId"] =
                          Some(PyStr(PyInt(Value(h[a]["portId"])) + delta))],
                      Tail(ports), delta)

\* A check that lets every pair of counts through.
CompatibleAlways(s, t) == TRUE

\* Whether the two RJ45 counts are a pair the code handles.
Compatible(s, t) == s = t \/ (s = 24 /\ t = 48) \/ (s = 48 /\ t = 24)

\* The heap and the two lists after the "Handle mismatched port counts" block,
\* for a compatible pair of counts.
Adjust(h, ports, s, t) ==
    LET rj45 == Take(ports, s)
        sfp  == Drop(ports, s)
    IN  IF s = 24 /\ t = 48
        THEN LET d == DuplicateFirstPort(h, rj45, 24)
             IN  [heap |-> Renumber(d.heap, sfp, 24), rj45 |-> d.ports, sfp |-> sfp]
        ELSE IF s = 48 /\ t = 24
        THEN [heap |-> Renumber(h, sfp, -24), rj45 |-> Take(rj45, 24), sfp |-> sfp]
        ELSE [heap |-> h, rj45 |-> rj45, sfp |-> sfp]

\* ------------------------------------------------------------------- migrate

NoDevice == SwitchDevice(<< >>)

\* The state at the start of a migrate run, the options being any.
Init ==
    /\ entry = "migrate"
    /\ pc = "get_source_config"
    /\ yes \in BOOLEAN
    /\ organization_id \in {None, Some(<< "org1" >>)}
    /\ source_device = NoDevice
    /\ target_device = NoDevice
    /\ answer = None
    /\ source_response = << >>
    /\ heap = << >>
    /\ source_ports = << >>
    /\ target_port_count = 0
    /\ source_rj45_count = None
    /\ target_rj45_count = None
    /\ adjusted_source_ports = << >>
    /\ port_index = 0
    /\ calls = << >>
    /\ error = None

\* An exception leaves migrate: the run ends with that error.
Raise(kind) ==
    /\ pc' = "aborted"
    /\ error' = Some(kind)

\* source_device = get_switch_config(dashboard_api, source_serial)
GetSourceConfig ==
    /\ pc = "get_source_config"
    /\ \/ \E response \in SourceDeviceResponses :
            /\ calls' = Append(calls, Call("getDevice", SOURCE_SERIAL, None, NoKwargs, TRUE))
            /\ source_device' = SwitchDevice(response)
            /\ pc' = "get_target_config"
            /\ UNCHANGED error
       \/ /\ calls' = Append(calls, Call("getDevice", SOURCE_SERIAL, None, NoKwargs, FALSE))
          /\ Raise("RetrievalError")
          /\ UNCHANGED source_device
    /\ UNCHANGED << entry, yes, organization_id, target_device, answer,
                    source_response, heap, source_ports, target_port_count,
                    source_rj45_count, target_rj45_count,
                    adjusted_source_ports, port_index >>

\* target_device = get_switch_config(dashboard_api, target_serial)
GetTargetConfig ==
    /\ pc = "get_target_config"
    /\ \/ \E response \in TargetDeviceResponses :
            /\ calls' = Append(calls, Call("getDevice", TARGET_SERIAL, None, NoKwargs, TRUE))
            /\ target_device' = SwitchDevice(response)
            /\ pc' = "name_check"
            /\ UNCHANGED error
       \/ /\ calls' = Append(calls, Call("getDevice", TARGET_SERIAL, None, NoKwargs, FALSE))
          /\ Raise("RetrievalError")
          /\ UNCHANGED target_device
    /\ UNCHANGED << entry, yes, organization_id, source_device, answer,
                    source_response, heap, source_ports, target_port_count,
                    source_rj45_count, target_rj45_count,
                    adjusted_source_ports, port_index >>

update_allowed_tag == "undeployed"

\* if target_device.name == target_device.mac: raise
NameCheck ==
    /\ pc = "name_check"
    /\ IF target_device["name"] = target_device["mac"]
       THEN Raise("TargetInUse")
       ELSE pc' = "tag_check" /\ UNCHANGED error
    /\ UNCHANGED << entry, yes, organization_id, source_device, target_device,
                    answer, source_response, heap, source_ports,
                    target_port_count, source_rj45_count, target_rj45_count,
                    adjusted_source_ports, port_index, calls >>

\* elif update_allowed_tag not in target_device.tags: raise.  With tags None
\* the membership test itself raises TypeError.
TagCheck ==
    /\ pc = "tag_check"
    /\ IF target_device["tags"] = None
       THEN Raise("TypeError")
       ELSE IF ~InList(update_allowed_tag, Value(target_device["tags"]))
       THEN Raise("TargetNotUndeployed")
       ELSE pc' = "confirm" /\ UNCHANGED error
    /\ UNCHANGED << entry, yes, organization_id, source_device, target_device,
                    answer, source_response, heap, source_ports,
                    target_port_count, source_rj45_count, target_rj45_count,
                    adjusted_source_ports, port_index, calls >>

\* A confirmation that takes every answer for a yes.
AffirmativeAlways(text) == TRUE

\* A confirmation that takes no answer for a yes.
AffirmativeNever(text) == FALSE

\* Whether click.confirm takes the typed text for a yes; its default is no.
Affirmative(text) == text = "y"

\* elif not yes: click.confirm(..., abort=True)   else: click.echo(...)
Confirm ==
    /\ pc = "confirm"
    /\ IF ~yes
       THEN \E text \in Answers :
               /\ answer' = Some(text)
               /\ IF Affirmative(text)
                  THEN pc' = "get_source_ports" /\ UNCHANGED error
                  ELSE Raise("Abort")
       ELSE /\ pc' = "get_source_ports"
            /\ UNCHANGED << answer, error >>
    /\ UNCHANGED << entry, yes, organization_id, source_device, target_device,
                    source_response, heap, source_ports, target_port_count,
                    source_rj45_count, target_rj45_count,
                    adjusted_source_ports, port_index, calls >>

\* get_switch_ports' list: one SwitchPort per mapping of the response.
PortsOf(response) == [i \in 1..Len(response) |-> SwitchPort(response[i])]

\* A check that never finds the list of ports empty.
ZeroPortsNever(ports) == FALSE

\* if len(ports) == 0: raise
ZeroPorts(ports) == Len(ports) = 0

\* source_ports = get_switch_ports(dashboard_api, source_serial).  A response
\* of zero ports raises like a failed call.
GetSourcePorts ==
    /\ pc = "get_source_ports"
    /\ \/ \E n \in SourcePortCounts \cup {0}, p \in Profiles :
            LET response == PortsResponse(n, p) IN
            /\ calls' = Append(calls, Call("getDeviceSwitchPorts", SOURCE_SERIAL, None, NoKwargs, TRUE))
            /\ IF ZeroPorts(PortsOf(response))
               THEN /\ Raise("RetrievalError")
                    /\ UNCHANGED << source_response, heap, source_ports >>
               ELSE /\ source_response' = response
                    /\ heap' = PortsOf(response)
                    /\ source_ports' = [i \in 1..Len(response) |-> i]
                    /\ pc' = "get_target_ports"
                    /\ UNCHANGED error
       \/ /\ calls' = Append(calls, Call("getDeviceSwitchPorts", SOURCE_SERIAL, None, NoKwargs, FALSE))
          /\ Raise("RetrievalError")
          /\ UNCHANGED << source_response, heap, source_ports >>
    /\ UNCHANGED << entry, yes, organization_id, source_device, target_device,
                    answer, target_port_count, source_rj45_count,
                    target_rj45_count, adjusted_source_ports, port_index >>

\* target_ports = get_switch_ports(dashboard_api, target_serial); only its
\* length is used.
GetTargetPorts ==
    /\ pc = "get_target_ports"
    /\ \/ \E n \in TargetPortCounts \cup {0}, p \in Profiles :
            LET response == PortsResponse(n, p) IN
            /\ calls' = Append(calls, Call("getDeviceSwitchPorts", TARGET_SERIAL, None, NoKwargs, TRUE))
            /\ IF ZeroPorts(PortsOf(response))
               THEN /\ Raise("RetrievalError")
                    /\ UNCHANGED target_port_count
               ELSE /\ target_port_count' = Len(PortsOf(response))
                    /\ pc' = "clone_config"
                    /\ UNCHANGED error
       \/ /\ calls' = Append(calls, Call("getDeviceSwitchPorts", TARGET_SERIAL, None, NoKwargs, FALSE))
          /\ Raise("RetrievalError")
          /\ UNCHANGED target_port_count
    /\ UNCHANGED << entry, yes, organization_id, source_device, target_device,
                    answer, source_response, heap, source_ports,
                    source_rj45_count, target_rj45_count,
                    adjusted_source_ports, port_index >>

\* A condition that asks for the clone whatever the two models are.
CloneWantedAnyModel == organization_id # None

\* Whether migrate calls clone_config.
CloneWanted ==
    source_device["model"] = target_device["model"] /\ organization_id # None

\* A clone_config that reports the failure and lets the run go on.
CloneConfigFailedGoesOn ==
    /\ pc' = "update_switch_ports"
    /\ UNCHANGED error

\* clone_config's handler: except Exception as e: raise click.ClickException.
CloneConfigFailed == Raise("CloneError")

\* if source_device.model == target_device.model and organization_id is not None:
\*     clone_config(...)
CloneConfig ==
    /\ pc = "clone_config"
    /\ IF CloneWanted
       THEN \E ok \in BOOLEAN :
               /\ calls' = Append(calls,
                     Call("cloneOrganizationSwitchDevices", TARGET_SERIAL, None,
                          [organizationId |-> Value(organization_id),
                           sourceSerial |-> SOURCE_SERIAL], ok))
               /\ IF ok
                  THEN pc' = "update_switch_ports" /\ UNCHANGED error
                  ELSE CloneConfigFailed
       ELSE /\ pc' = "update_switch_ports"
            /\ UNCHANGED << calls, error >>
    /\ UNCHANGED << entry, yes, organization_id, source_device, target_device,
                    answer, source_response, heap, source_ports,
                    target_port_count, source_rj45_count, target_rj45_count,
                    adjusted_source_ports, port_index >>

\* -------------------------------------------------------- update_switch_ports

\* A check that never finds the list empty.
NoPortsNever(source_port_count) == FALSE

\* if source_port_count == 0: raise
NoPorts(source_port_count) == source_port_count = 0

\* Where control goes when update_switch_ports returns.
AfterPorts == IF entry = "migrate" THEN "update_switch_config" ELSE "done"

\* The function's first part, up to adjusted_source_ports: the check for an
\* empty list, the two RJ45 counts, the split and the handling of mismatched
\* counts.
AdjustPorts ==
    /\ pc = "update_switch_ports"
    /\ IF NoPorts(Len(source_ports))
       THEN /\ Raise("EmptySourceTopology")
            /\ UNCHANGED << heap, source_rj45_count, target_rj45_count,
                            adjusted_source_ports, port_index >>
       ELSE LET s == Rj45Count(Len(source_ports))
                t == Rj45Count(target_port_count)
            IN  /\ source_rj45_count' = Some(s)
                /\ target_rj45_count' = Some(t)
                /\ IF Compatible(s, t)
                   THEN LET r == Adjust(heap, source_ports, s, t)
                        IN  /\ heap' = r.heap
                            /\ adjusted_source_ports' = r.rj45 \o r.sfp
                            /\ port_index' = 1
                            /\ pc' = IF r.rj45 \o r.sfp = << >>
                                     THEN AfterPorts ELSE "update_port"
                            /\ UNCHANGED error
                   ELSE /\ Raise("IncompatibleTopology")
                        /\ UNCHANGED << heap, adjusted_source_ports, port_index >>
    /\ UNCHANGED << entry, yes, organization_id, source_device, target_device,
                    answer, source_response, source_ports, target_port_count,
                    calls >>

\* A failed port update that is passed over: the loop goes on to the next
\* port.
UpdatePortFailedGoesOn(port) ==
    /\ port_index' = port_index + 1
    /\ pc' = IF port_index = Len(adjusted_source_ports)
             THEN AfterPorts ELSE "update_port"
    /\ UNCHANGED error

\* The loop's handler: except Exception as e: raise click.ClickException(
\* f'Error updating port {port.portId} on switch {target_serial}.').
UpdatePortFailed(port) ==
    /\ pc' = "aborted"
    /\ error' = << "PortApplyError", port["portId"] >>
    /\ UNCHANGED port_index

\* One turn of the loop over adjusted_source_ports: the payload of the port,
\* the updateDeviceSwitchPort call, and the exception when the call fails.
UpdatePort ==
    /\ pc = "update_port"
    /\ LET port == heap[adjusted_source_ports[port_index]] IN
       \E ok \in BOOLEAN :
          /\ calls' = Append(calls,
                Call("updateDeviceSwitchPort", TARGET_SERIAL, port["portId"],
                     PortPayload(port), ok))
          /\ IF ok
             THEN /\ port_index' = port_index + 1
                  /\ pc' = IF port_index = Len(adjusted_source_ports)
                           THEN AfterPorts ELSE "update_port"
                  /\ UNCHANGED error
             ELSE UpdatePortFailed(port)
    /\ UNCHANGED << entry, yes, organization_id, source_device, target_device,
                    answer, source_response, heap, source_ports,
                    target_port_count, source_rj45_count, target_rj45_count,
                    adjusted_source_ports >>

\* ------------------------------------------------------- update_switch_config

\* source_device.name = f'{source_device.name}-clone', then updateDevice with
\* the fields that are not None.
UpdateSwitchConfig ==
    /\ pc = "update_switch_config"
    /\ source_device' =
          [source_device EXCEPT !["name"] = Some(CloneName(source_device["name"]))]
    /\ \E ok \in BOOLEAN :
          /\ calls' = Append(calls,
                Call("updateDevice", TARGET_SERIAL, None,
                     DevicePayload(source_device'), ok))
          /\ IF ok
             THEN pc' = "done" /\ UNCHANGED error
             ELSE Raise("DeviceApplyError")
    /\ UNCHANGED << entry, yes, organization_id, target_device, answer,
                    source_response, heap, source_ports, target_port_count,
                    source_rj45_count, target_rj45_count,
                    adjusted_source_ports, port_index >>

\* ------------------------------------------------------------ specifications

Next ==
    \/ GetSourceConfig
    \/ GetTargetConfig
    \/ NameCheck
    \/ TagCheck
    \/ Confirm
    \/ GetSourcePorts
    \/ GetTargetPorts
    \/ CloneConfig
    \/ AdjustPorts
    \/ UpdatePort
    \/ UpdateSwitchConfig

\* A run of the migrate command.
Spec == Init /\ [][Next]_vars

\* Port counts of the target when update_switch_ports is called on its own.
DirectTargetCounts == {1, 8, 9, 23, 24, 25, 30, 47, 48, 49, MaxPorts}

\* update_switch_ports called on its own, with any source list of at most
\* MaxPorts ports (the empty list included) and any of the target counts.
InitPorts ==
    /\ entry = "update_switch_ports"
    /\ pc = "update_switch_ports"
    /\ yes = FALSE
    /\ organization_id = None
    /\ source_device = NoDevice
    /\ target_device = NoDevice
    /\ answer = None
    /\ \E n \in 0..MaxPorts, p \in Profiles :
          /\ source_response = PortsResponse(n, p)
          /\ heap = PortsOf(PortsResponse(n, p))
          /\ source_ports = [i \in 1..n |-> i]
    /\ target_port_count \in DirectTargetCounts
    /\ source_rj45_count = None
    /\ target_rj45_count = None
    /\ adjusted_source_ports = << >>
    /\ port_index = 0
    /\ calls = << >>
    /\ error = None

NextPorts ==
    \/ AdjustPorts
    \/ UpdatePort

SpecPorts == InitPorts /\ [][NextPorts]_vars

\* ---------------------------------------------------- vocabulary of the claims

\* The collaborator operations that change the target.
MutatingOps == {"cloneOrganizationSwitchDevices", "updateDeviceSwitchPort", "updateDevice"}

\* The positions in `calls` of the calls of the operations in ops.
CallsOf(ops) == {i \in 1..Len(calls) : calls[i].op \in ops}

\* The run ended with the error `kind`.
EndedWith(kind) == pc = "aborted" /\ error # None /\ error[1] = kind

\* The gate ended in Aborted: a failed check or a refused confirmation.
GateAborted ==
    \/ EndedWith("TargetInUse")
    \/ EndedWith("TargetNotUndeployed")
    \/ EndedWith("TypeError")
    \/ EndedWith("Abort")

\* The gate reached Proceed: the run is past the confirmation, the target's
\* name differs from its mac, its tags hold "undeployed", and --yes was given
\* or the operator answered yes.
GateProceeded ==
    /\ pc \notin {"get_source_config", "get_target_config", "name_check",
                  "tag_check", "confirm"}
    /\ ~GateAborted
    /\ target_device["name"] # target_device["mac"]
    /\ target_device["tags"] # None
    /\ InList("undeployed", Value(target_device["tags"]))
    /\ (yes \/ answer = Some("y"))

\* ----------------------------------------------------------------------- C1

\* C1: a mutating call on the target (cloneDevices, updatePort, updateDevice)
\* is made only once the gate has reached Proceed (NameCheck passed, TagCheck
\* passed, then --yes or an affirmative answer), and a run whose gate ended in
\* Aborted has made no mutating call.
C1_NoMutationBeforeProceed ==
    /\ CallsOf(MutatingOps) # {} => GateProceeded
    /\ GateAborted => CallsOf(MutatingOps) = {}

\* A run that prompted, was answered yes and went on to change the target.
C1_Witness ==
    /\ ~yes
    /\ answer = Some("y")
    /\ CallsOf({"updateDeviceSwitchPort"}) # {}
    /\ CallsOf({"updateDevice"}) # {}

\* ----------------------------------------------------------------------- C2

\* C2: a run that aborted with a precondition error (TargetInUse,
\* TargetNotUndeployed) or a reconciliation error (IncompatibleTopology,
\* EmptySourceTopology) has made no mutating call on the target.
C2_NoMutationOnPreconditionOrReconciliationError ==
    (\/ EndedWith("TargetInUse")
     \/ EndedWith("TargetNotUndeployed")
     \/ EndedWith("IncompatibleTopology")
     \/ EndedWith("EmptySourceTopology"))
        => CallsOf(MutatingOps) = {}

\* ----------------------------------------------------------------------- C3

\* The bulk clone operation was invoked and failed.
CloneFailed ==
    \E i \in CallsOf({"cloneOrganizationSwitchDevices"}) : ~calls[i].ok

NearestClassAtOrBelow(n) ==
    IF n >= 48 THEN 48 ELSE IF n >= 24 THEN 24 ELSE 8

\* The source port list as it was handed to update_switch_ports.
InputPorts == PortsOf(source_response)

\* The number a portId of one or two decimal digits denotes, -1 for any other
\* text.
Numeric(portId) ==
    IF portId = None THEN -1
    ELSE LET d == Value(portId) IN
         IF Len(d) = 1 /\ d[1] \in 0..9 THEN d[1]
         ELSE IF Len(d) = 2 /\ d[1] \in 1..9 /\ d[2] \in 0..9 THEN 10 * d[1] + d[2]
         ELSE -1

\* The portId text of the number k, 1 <= k <= 99.
PortIdOf(k) == Some(IF k < 10 THEN << k >> ELSE << k \div 10, k % 10 >>)

\* update_switch_ports has run its first part: it is in or past its loop, or
\* it raised there or in the loop.
Decided ==
    \/ pc \in {"update_port", "update_switch_config", "done"}
    \/ EndedWith("EmptySourceTopology")
    \/ EndedWith("IncompatibleTopology")
    \/ EndedWith("PortApplyError")
    \/ EndedWith("DeviceApplyError")

\* Reconciliation succeeded: update_switch_ports reached its loop.
Reconciled ==
    /\ Decided
    /\ ~EndedWith("EmptySourceTopology")
    /\ ~EndedWith("IncompatibleTopology")

\* The reconciled list, as port records.
Output == [i \in 1..Len(adjusted_source_ports) |-> heap[adjusted_source_ports[i]]]

SourceClass == NearestClassAtOrBelow(Len(source_ports))

TargetClass == NearestClassAtOrBelow(target_port_count)

UpdatePortCalls == CallsOf({"updateDeviceSwitchPort"})

\* ----------------------------------------------------------------------- C4

\* C4: when reconciliation succeeds, every port of the reconciled list carries
\* a numeric portId in 1..targetPortCount, and no updatePort call is issued
\* for a portId above the target's port count.
C4_PortIdsValidForTarget ==
    /\ Reconciled =>
          \A i \in 1..Len(Output) :
             Numeric(Output[i]["portId"]) \in 1..target_port_count
    /\ \A c \in UpdatePortCalls :
          Numeric(calls[c].portId) \in 1..target_port_count

\* ----------------------------------------------------------------------- C5

\* C5: from class 24 to class 48 the reconciled list is 48 base ports followed
\* by the source's uplink ports: ports 1..24 are the source's first 24 ports
\* unchanged, ports 25..48 equal source port 1 in every field but portId, which
\* is "25".."48", and each uplink port keeps its fields with its numeric portId
\* raised by 24.
C5_Grow24To48 ==
    (Reconciled /\ SourceClass = 24 /\ TargetClass = 48) =>
        LET n == Len(InputPorts) IN
        /\ Len(Output) = 48 + (n - 24)
        /\ \A i \in 1..24 : Output[i] = InputPorts[i]
        /\ \A i \in 25..48 :
              Output[i] = [InputPorts[1] EXCEPT !["portId"] = PortIdOf(i)]
        /\ \A i \in 25..n :
              /\ Output[24 + i] = [InputPorts[i] EXCEPT !["portId"] = Output[24 + i]["portId"]]
              /\ Numeric(Output[24 + i]["portId"]) = Numeric(InputPorts[i]["portId"]) + 24

\* A 26-port source reconciled for a 48-class target, its port 1 differing
\* from its port 24.
C5_Witness ==
    /\ Reconciled /\ SourceClass = 24 /\ TargetClass = 48
    /\ Len(InputPorts) = 26
    /\ InputPorts[1]["name"] # InputPorts[24]["name"]
    /\ pc = "done"

\* ----------------------------------------------------------------------- C6

\* C6: from class 48 to class 24 the reconciled list is the source's first 24
\* ports unchanged followed by the source's uplink ports with each numeric
\* portId lowered by 24; none of the source's ports 25..48 is in the list, and
\* every updatePort call is the call for the list's port at that position.
C6_Shrink48To24 ==
    (Reconciled /\ SourceClass = 48 /\ TargetClass = 24) =>
        LET n == Len(InputPorts) IN
        /\ Len(Output) = 24 + (n - 48)
        /\ \A i \in 1..24 : Output[i] = InputPorts[i]
        /\ \A i \in 49..n :
              /\ Output[i - 24] = [InputPorts[i] EXCEPT !["portId"] = Output[i - 24]["portId"]]
              /\ Numeric(Output[i - 24]["portId"]) = Numeric(InputPorts[i]["portId"]) - 24
        /\ \A i \in 1..Len(adjusted_source_ports) :
              adjusted_source_ports[i] \notin {source_ports[k] : k \in 25..48}
        /\ Cardinality(UpdatePortCalls) <= Len(Output)
        /\ \A c \in UpdatePortCalls :
              LET k == Cardinality({d \in UpdatePortCalls : d <= c}) IN
              /\ calls[c].portId = Output[k]["portId"]
              /\ DOMAIN calls[c].kwargs = {f \in SwitchPortFields \ {"portId"} : Output[k][f] # None}
              /\ \A f \in DOMAIN calls[c].kwargs : Some(calls[c].kwargs[f]) = Output[k][f]

\* A 50-port source applied in full to a 24-class target.
C6_Witness ==
    /\ Reconciled /\ SourceClass = 48 /\ TargetClass = 24
    /\ Len(InputPorts) = 50
    /\ Cardinality(UpdatePortCalls) = 26
    /\ pc = "done"

\* ----------------------------------------------------------------------- C7

\* The pairs of classes the reconciler accepts, as the specification lists
\* them.
AcceptedPair(s, t) == s = t \/ << s, t >> = << 24, 48 >> \/ << s, t >> = << 48, 24 >>

\* C7: for a non-empty source list and a pair of classes that is neither
\* equal, nor 24 to 48, nor 48 to 24, the reconciler fails with
\* IncompatibleTopology and no updatePort call is made.
C7_IncompatibleTopology ==
    (Decided /\ Len(source_ports) > 0 /\ ~AcceptedPair(SourceClass, TargetClass)) =>
        /\ EndedWith("IncompatibleTopology")
        /\ UpdatePortCalls = {}

\* A 10-port source, of class 8, refused before a 24-class target.
C7_Witness ==
    /\ Decided
    /\ SourceClass = 8 /\ TargetClass = 24
    /\ Len(source_ports) = 10
    /\ EndedWith("IncompatibleTopology")

\* ----------------------------------------------------------------------- C8

\* C8: for equal classes the reconciled list equals the input list: same
\* length, same order, same portIds, same field values.
C8_EqualClassIdentity ==
    (Reconciled /\ SourceClass = TargetClass) => Output = InputPorts

\* A 30-port source with 6 ports beyond its class, reconciled for a 25-port
\* target.
C8_Witness ==
    /\ Reconciled /\ SourceClass = TargetClass
    /\ Len(InputPorts) = 30 /\ target_port_count = 25

\* ----------------------------------------------------------------------- C9

\* C9: the RJ45 count the code selects for a port count n >= 1 is
\* nearestClassAtOrBelow(n), for the source list's length and for the
\* target's port count alike; so the class of 8, 24 and 48 is itself.
C9_ClassIsNearestAtOrBelow ==
    /\ source_rj45_count # None =>
          Value(source_rj45_count) = NearestClassAtOrBelow(Len(source_ports))
    /\ (target_rj45_count # None /\ target_port_count >= 1) =>
          Value(target_rj45_count) = NearestClassAtOrBelow(target_port_count)
    /\ \A n \in {8, 24, 48} :
          (source_rj45_count # None /\ Len(source_ports) = n) =>
              Value(source_rj45_count) = n

\* The class of a count between two chassis sizes has been computed.
C9_Witness ==
    /\ source_rj45_count = Some(24) /\ Len(source_ports) = 30
    /\ target_rj45_count = Some(8) /\ target_port_count = 23

\* ---------------------------------------------------------------------- C10

\* C10: reconciling an empty source list fails with EmptySourceTopology, with
\* neither RJ45 count computed and no updatePort call made.
C10_EmptySource ==
    (Len(source_ports) = 0 /\ Decided) =>
        /\ EndedWith("EmptySourceTopology")
        /\ source_rj45_count = None
        /\ target_rj45_count = None
        /\ UpdatePortCalls = {}

\* update_switch_ports has run on an empty list, before a 48-port target.
C10_Witness ==
    /\ Len(source_ports) = 0
    /\ target_port_count = 48
    /\ Decided

\* ------------------------------------------------------ the gate's claims

\* getDevice has returned the target's snapshot.
TargetFetched ==
    \E i \in CallsOf({"getDevice"}) : calls[i].serial = TARGET_SERIAL /\ calls[i].ok

\* The gate has run its two checks on the target's snapshot.
ChecksDone == TargetFetched /\ pc \notin {"name_check", "tag_check"}

\* The literal tag "undeployed" is among the target's tags; it is absent when
\* the tags are unset or hold other tags only.
HasUndeployedTag ==
    /\ target_device["tags"] # None
    /\ \E i \in 1..Len(Value(target_device["tags"])) :
          Value(target_device["tags"])[i] = "undeployed"

\* The gate reached Confirm: the run is at the confirmation or past it.
ReachedConfirm ==
    /\ ChecksDone
    /\ ~EndedWith("TargetInUse")
    /\ ~EndedWith("TargetNotUndeployed")
    /\ ~EndedWith("TypeError")

\* ---------------------------------------------------------------------- C11

\* C11: for every target snapshot (name, mac and tags each set or unset) the
\* gate aborts with TargetInUse when name == mac, whatever the tags; otherwise
\* aborts with TargetNotUndeployed when the tag "undeployed" is absent from the
\* target's tags; otherwise reaches Confirm.
C11_GateOrder ==
    ChecksDone =>
        IF target_device["name"] = target_device["mac"]
        THEN EndedWith("TargetInUse")
        ELSE IF ~HasUndeployedTag
        THEN EndedWith("TargetNotUndeployed")
        ELSE ReachedConfirm

\* ---------------------------------------------------------------------- C12

\* The operator was prompted for confirmation.
Prompted == answer # None

\* The gate is over: past the confirmation, or aborted by it or a check.
GateOver == ChecksDone /\ pc # "confirm"

\* C12: the prompt is issued if and only if NameCheck and TagCheck passed and
\* --yes is not set.  A failed check never prompts; with --yes the gate goes
\* to Proceed without a prompt; without --yes it goes to Proceed on an
\* affirmative answer and to Aborted on any other.
C12_PromptIffChecksPassedAndNotYes ==
    /\ Prompted =>
          /\ ~yes
          /\ target_device["name"] # target_device["mac"]
          /\ HasUndeployedTag
    /\ GateOver =>
          /\ Prompted <=> (ReachedConfirm /\ ~yes)
          /\ (ReachedConfirm /\ yes) => (GateProceeded /\ answer = None)
          /\ (ReachedConfirm /\ ~yes /\ answer = Some("y")) => GateProceeded
          /\ (ReachedConfirm /\ ~yes /\ answer # Some("y")) => EndedWith("Abort")
    /\ (EndedWith("TargetInUse") \/ EndedWith("TargetNotUndeployed")
        \/ EndedWith("TypeError")) => ~Prompted

\* A run without --yes whose operator refused, and so ended at the gate.
C12_Witness ==
    /\ ~yes
    /\ answer = Some("n")
    /\ EndedWith("Abort")

\* ------------------------------------------------- the port loop's claims

\* The port at position k of the reconciled list.
OutputAt(k) == heap[adjusted_source_ports[k]]

\* The number of calls made before the first updatePort call: the reads and
\* the bulk clone.
CallsBeforePorts ==
    Cardinality(CallsOf({"getDevice", "getDeviceSwitchPorts",
                         "cloneOrganizationSwitchDevices"}))

\* update_switch_ports returned: every port of the list was applied.
PortsApplied ==
    \/ pc \in {"update_switch_config", "done"}
    \/ EndedWith("DeviceApplyError")

\* ---------------------------------------------------------------------- C13

\* C13: with source portIds "1".."n" in list order, a run that reaches port
\* application issues its updatePort calls one after the other, one per
\* reconciled port, in the list's order and in strictly ascending numeric
\* portId order, so that no portId is updated twice; when the loop is over there
\* is one call per port.  The list the loop starts on is itself ascending.
C13_PortsAppliedAscending ==
    LET b == CallsBeforePorts
        n == Cardinality(UpdatePortCalls)
    IN  /\ n <= Len(adjusted_source_ports)
        /\ UpdatePortCalls = (b + 1)..(b + n)
        /\ \A k \in 1..n : calls[b + k].portId = OutputAt(k)["portId"]
        /\ n >= 1 => Numeric(calls[b + 1].portId) >= 1
        /\ \A k \in 1..(n - 1) :
              Numeric(calls[b + k].portId) < Numeric(calls[b + k + 1].portId)
        /\ (entry = "migrate" /\ PortsApplied) => n = Len(adjusted_source_ports)
        /\ (pc = "update_port" /\ port_index = 1) =>
              \A k \in 1..(Len(adjusted_source_ports) - 1) :
                 Numeric(OutputAt(k)["portId"]) < Numeric(OutputAt(k + 1)["portId"])

\* A 26-port source applied in full to a 48-class target: 50 calls.
C13_Witness ==
    /\ pc = "done"
    /\ SourceClass = 24 /\ TargetClass = 48
    /\ Cardinality(UpdatePortCalls) = 48 + Uplinks

\* ---------------------------------------------------------------------- C14

\* An updatePort call failed.
PortFailed == \E c \in UpdatePortCalls : ~calls[c].ok

\* C14: when the updatePort call of the k-th reconciled port fails, the run
\* aborts reporting that port's portId; the calls made are those of the first
\* k ports of the list, in order, all but the last successful; the failed call
\* is the last call of the run, so no later port is attempted, none is retried
\* and none is undone, and updateDevice is never called.
C14_PortFailureLeavesPrefix ==
    PortFailed =>
        LET b == CallsBeforePorts
            k == Cardinality(UpdatePortCalls)
        IN  /\ EndedWith("PortApplyError")
            /\ k <= Len(adjusted_source_ports)
            /\ port_index = k
            /\ error[2] = OutputAt(k)["portId"]
            /\ Len(calls) = b + k
            /\ \A j \in 1..k :
                  /\ calls[b + j].op = "updateDeviceSwitchPort"
                  /\ calls[b + j].portId = OutputAt(j)["portId"]
                  /\ calls[b + j].ok <=> j < k
            /\ CallsOf({"updateDevice"}) = {}

\* The update of port 30, a port synthesized from port 1, failed after 29
\* ports had been applied.
C14_Witness ==
    /\ PortFailed
    /\ SourceClass = 24 /\ TargetClass = 48
    /\ Cardinality(UpdatePortCalls) = 30
    /\ Cardinality({c \in UpdatePortCalls : calls[c].ok}) = 29

\* ------------------------------------------------- the device update's claims

\* The positions in `calls` of the updateDevice calls.
UpdateDeviceCalls == CallsOf({"updateDevice"})

\* An updateDevice call comes only once, as the last call so far, right after
\* the successful updatePort calls of all the reconciled ports; a run that is
\* done has made it.
DeviceUpdatedAfterPorts ==
    LET b == CallsBeforePorts
        n == Cardinality(UpdatePortCalls)
    IN  /\ Cardinality(UpdateDeviceCalls) <= 1
        /\ \A d \in UpdateDeviceCalls :
              /\ calls[d].serial = TARGET_SERIAL
              /\ n = Len(adjusted_source_ports)
              /\ \A c \in UpdatePortCalls : calls[c].ok
              /\ d = b + n + 1
              /\ d = Len(calls)
        /\ pc = "done" =>
              /\ n = Len(adjusted_source_ports)
              /\ Cardinality(UpdateDeviceCalls) = 1
              /\ \A c \in 1..Len(calls) : calls[c].ok

\* The step of update_switch_config sends the name the source device has
\* before the step, followed by "-clone".
SendsCloneOfSourceName ==
    pc = "update_switch_config" =>
        /\ source_device["name"] # None
        /\ calls'[Len(calls')].op = "updateDevice"
        /\ calls'[Len(calls')].kwargs["name"]
              = Value(source_device["name"]) \o << "-clone" >>

\* ---------------------------------------------------------------------- C15

\* C15: in every migrate run updateDevice on the target is called at most
\* once, only after the updatePort call of every reconciled port has
\* succeeded, and the name it sends is the source device's name followed by
\* "-clone"; a fully successful run has one updatePort call per reconciled
\* port and exactly one updateDevice call after them.
C15_DeviceUpdatedOnceWithCloneName ==
    []DeviceUpdatedAfterPorts /\ [][SendsCloneOfSourceName]_vars

\* ---------------------------------------------------------------------- C17

\* The step of update_switch_config sends no field that is unset in the source
\* device as get_switch_config built it.
SendsOnlySetFields ==
    pc = "update_switch_config" =>
        \A f \in DOMAIN calls'[Len(calls')].kwargs : source_device[f] # None

\* C17: whichever optional fields of the source device are set, name included,
\* the payload of migrate's updateDevice call never contains a field that was
\* unset in the source device snapshot.
C17_DevicePayloadOmitsUnset == [][SendsOnlySetFields]_vars

\* ------------------------------------------------- the port payload's claim

\* The position in the source list of the port record that the k-th
\* reconciled port derives from: itself when the classes are equal; from 24 to
\* 48, itself for a base port, port 1 for a synthesized port and 24 places
\* earlier for an uplink; from 48 to 24, itself for a base port and 24 places
\* later for an uplink.
DerivesFrom(k) ==
    IF SourceClass = 24 /\ TargetClass = 48
    THEN (IF k <= 24 THEN k ELSE IF k <= 48 THEN 1 ELSE k - 24)
    ELSE IF SourceClass = 48 /\ TargetClass = 24
    THEN (IF k <= 24 THEN k ELSE k + 24)
    ELSE k

\* The settings that are set in a port mapping of the response: its recognised
\* keys, portId apart.
SetIn(mapping) == (DOMAIN mapping \cap SwitchPortFields) \ {"portId"}

\* ---------------------------------------------------------------------- C16

\* C16: for every reconciled port, be it copied, synthesized from port 1 or a
\* renumbered uplink, the payload of its updatePort call holds exactly the
\* fields that are set in the port record it derives from, with their values;
\* it holds no field that is unset there, and it never holds portId, which is
\* passed as the identifier of the port only.
C16_PortPayloadExactlySetFields ==
    LET b == CallsBeforePorts
        n == Cardinality(UpdatePortCalls)
    IN  \A k \in 1..n :
           LET call   == calls[b + k]
               origin == source_response[DerivesFrom(k)]
           IN  /\ call.op = "updateDeviceSwitchPort"
               /\ call.portId # None
               /\ "portId" \notin DOMAIN call.kwargs
               /\ DOMAIN call.kwargs = SetIn(origin)
               /\ \A f \in SwitchPortFields \ {"portId"} :
                     f \notin DOMAIN origin => f \notin DOMAIN call.kwargs
               /\ \A f \in DOMAIN call.kwargs : call.kwargs[f] = origin[f]

\* Port 30, synthesized from a port 1 that has neither name nor vlan, and
\* port 50, a renumbered uplink with a name and a vlan, have been applied.
C16_Witness ==
    /\ SourceClass = 24 /\ TargetClass = 48
    /\ Cardinality(UpdatePortCalls) >= 50
    /\ DOMAIN source_response[1] \cap {"name", "vlan"} = {}
    /\ DOMAIN calls[CallsBeforePorts + 30].kwargs = {"enabled"}
    /\ calls[CallsBeforePorts + 50].portId = PortIdOf(50)
    /\ {"name", "vlan"} \subseteq DOMAIN calls[CallsBeforePorts + 50].kwargs

\* ------------------------------------------------------- the reads' claim

\* The collaborator operations that read.
ReadOps == {"getDevice", "getDeviceSwitchPorts"}

\* The getDeviceSwitchPorts call for `serial` has been made.
PortsRead(serial) ==
    \E c \in CallsOf({"getDeviceSwitchPorts"}) : calls[c].serial = serial

\* A read failed: the call raised, or the ports read for a switch were none.
ReadFailed ==
    \/ \E c \in CallsOf(ReadOps) : ~calls[c].ok
    \/ PortsRead(SOURCE_SERIAL) /\ Len(source_ports) = 0
    \/ PortsRead(TARGET_SERIAL) /\ target_port_count = 0

\* ---------------------------------------------------------------------- C18

\* C18: if a read of the collaborator fails during migrate (getDevice or
\* getDeviceSwitchPorts, for the source or the target, a response of zero
\* ports included), the run aborts with a retrieval error, the failed read
\* being its last call, and no mutating call is made; every read precedes
\* every mutating call, which comes only after the four reads have succeeded.
C18_ReadFailureAbortsBeforeMutation ==
    LET reads == CallsOf(ReadOps) IN
    /\ ReadFailed =>
          /\ EndedWith("RetrievalError")
          /\ CallsOf(MutatingOps) = {}
          /\ \A c \in 1..(Len(calls) - 1) : calls[c].ok
    /\ EndedWith("RetrievalError") => ReadFailed
    /\ reads = 1..Cardinality(reads)
    /\ CallsOf(MutatingOps) # {} =>
          /\ Cardinality(reads) = 4
          /\ \A c \in reads : calls[c].ok
          /\ Len(source_ports) > 0
          /\ target_port_count > 0

\* The target's ports were read as the fourth call and the response held no
\* port: the run ended there.
C18_Witness ==
    /\ EndedWith("RetrievalError")
    /\ Len(calls) = 4
    /\ calls[4].op = "getDeviceSwitchPorts" /\ calls[4].serial = TARGET_SERIAL
    /\ calls[4].ok
    /\ Len(source_ports) > 0
    /\ target_port_count = 0

\* ------------------------------------------- the reconciliation's frame claim

\* The source port at position i of the caller's list, as it is now.
SourceAt(i) == heap[source_ports[i]]

\* What reconciliation adds to the portId of an uplink port.
UplinkShift ==
    IF SourceClass = 24 /\ TargetClass = 48 THEN 24
    ELSE IF SourceClass = 48 /\ TargetClass = 24 THEN -24
    ELSE 0

\* Every port synthesized for 25..48 is an instance of its own: it is none of
\* the caller's ports and none of the other ports of the reconciled list.
SynthesizedIndependent ==
    (SourceClass = 24 /\ TargetClass = 48) =>
        \A k \in 25..48 :
           /\ \A i \in 1..Len(source_ports) :
                 adjusted_source_ports[k] # source_ports[i]
           /\ \A j \in 1..Len(adjusted_source_ports) :
                 j # k => adjusted_source_ports[j] # adjusted_source_ports[k]
           /\ OutputAt(k)["portId"] = PortIdOf(k)

\* ---------------------------------------------------------------------- C19

\* C19: reconciliation is a pure function of its inputs: after it runs, in the
\* equal-class, 24-to-48 and 48-to-24 cases, the input source port list has
\* the same length and every input port record, base or uplink, has the same
\* portId and field values as before; each port synthesized for 25..48 is an
\* independent copy, so that changing it does not change source port 1.
C19_ReconciliationLeavesInputUnchanged ==
    Reconciled =>
        /\ Len(source_ports) = Len(source_response)
        /\ \A i \in 1..Len(source_ports) : SourceAt(i) = SwitchPort(source_response[i])
        /\ SynthesizedIndependent

\* C19 as the code has it: after reconciliation the input source port list has
\* the same length and holds the same records; every base port record has the
\* same portId and field values as before; every uplink record has the same
\* field values as before but for its portId, which reconciliation has raised
\* by 24 from 24 to 48, lowered by 24 from 48 to 24 and left alone between
\* equal classes; each port synthesized for 25..48 is an independent copy, so
\* that setting its portId has not changed source port 1.
C19_ReconciliationRenumbersInputUplinks ==
    Reconciled =>
        /\ Len(source_ports) = Len(source_response)
        /\ \A i \in 1..Len(source_ports) :
              /\ source_ports[i] = i
              /\ i <= SourceClass => SourceAt(i) = SwitchPort(source_response[i])
              /\ i > SourceClass =>
                    SourceAt(i) = [SwitchPort(source_response[i])
                                      EXCEPT !["portId"] = PortIdOf(i + UplinkShift)]
        /\ SynthesizedIndependent

\* A 26-port source reconciled for a 48-class target: the caller's port 25 now
\* has portId "49", the synthesized port 25 has portId "25" and the caller's
\* port 1 still has portId "1".
C19_Witness ==
    /\ Reconciled /\ SourceClass = 24 /\ TargetClass = 48
    /\ Len(source_ports) = 26
    /\ SourceAt(25)["portId"] = PortIdOf(49)
    /\ OutputAt(25)["portId"] = PortIdOf(25)
    /\ SourceAt(1)["portId"] = PortIdOf(1)

\* ------------------------------------------------------ the bulk clone's claim

\* The positions in `calls` of the cloneDevices calls.
CloneCalls == CallsOf({"cloneOrganizationSwitchDevices"})

\* migrate is past its clone step: both port fetches succeeded before it, and
\* the gate had let the run proceed before them.
PastCloneStep ==
    \/ pc \in {"update_switch_ports", "update_port", "update_switch_config", "done"}
    \/ EndedWith("CloneError")
    \/ EndedWith("EmptySourceTopology")
    \/ EndedWith("IncompatibleTopology")
    \/ EndedWith("PortApplyError")
    \/ EndedWith("DeviceApplyError")

\* ---------------------------------------------------------------------- C20

\* C20: in every migrate run cloneDevices is invoked at most once, and it is
\* invoked if and only if the gate reached Proceed, both port fetches
\* succeeded, the source's model equals the target's and an organization id
\* was supplied; when invoked, it comes after both port fetches and before the
\* first updatePort call.
C20_CloneOnceIffSameModelAndOrganization ==
    LET ports == CallsOf({"getDeviceSwitchPorts"}) IN
    /\ Cardinality(CloneCalls) <= 1
    /\ CloneCalls # {} <=>
          /\ PastCloneStep
          /\ source_device["model"] = target_device["model"]
          /\ organization_id # None
    /\ PastCloneStep =>
          /\ GateProceeded
          /\ Cardinality(ports) = 2
          /\ \A c \in ports : calls[c].ok
          /\ Len(source_ports) > 0 /\ target_port_count > 0
    /\ \A c \in CloneCalls :
          /\ c = 5
          /\ \A r \in ports : r < c
          /\ \A u \in UpdatePortCalls : c < u
          /\ calls[c].kwargs = [organizationId |-> Value(organization_id),
                                sourceSerial |-> SOURCE_SERIAL]

\* A run with an organization id and equal models that cloned, then applied
\* its ports and the device, every call succeeding.
C20_Witness ==
    /\ Cardinality(CloneCalls) = 1
    /\ source_device["model"] = target_device["model"]
    /\ organization_id # None
    /\ Cardinality(UpdatePortCalls) >= 1
    /\ pc = "done"

=============================================================================
